---- MODULE Spec2Model ----
(***************************************************************************)
(* Model of the RAG pipeline: the ingestion pipeline (scripts/ingest.py,   *)
(* the /upload route of backend/api/index.py) and the query pipeline       *)
(* (backend/rag/chain.py, backend/rag/vectorstore.py, behind the two chat  *)
(* entry points api/chat.py and backend/api/index.py).                     *)
(*                                                                         *)
(* Strings the code inspects character by character (messages, namespace   *)
(* names) are sequences of one-character strings.  Chunk texts are small   *)
(* integers (content codes).  Scores are cosine similarities in            *)
(* hundredths, so the relevance gate 0.3 is 30.                            *)
(*                                                                         *)
(* The processes share nothing but the vector index, so each is checked    *)
(* on its own: SpecCli (the ingestion script), SpecUpload (the /upload     *)
(* route), SpecIngest (both, on the documents of a single batch), SpecChat *)
(* (the two chat entry points, started on index contents that ingestion    *)
(* runs produce), SpecClassify (the conversation classifier on its own)    *)
(* and SpecLimiter (the rate-limit middleware, which runs in front of the  *)
(* routes).  An action is the code between two calls of an external        *)
(* service; each such call can fail.                                       *)
(***************************************************************************)
EXTENDS Integers, Sequences, FiniteSets, TLC

VARIABLES index, index_exists, ing, runs, last, chat, rag_chain,
          request_counts, now, made, verdict, tmp_files

\* the rate limiter of backend/api/index.py: its dictionary, the wall clock in
\* minutes, the requests each client has made in the current minute, and the
\* answer to the last request
limiter == <<request_counts, now, made, verdict>>

vars == <<index, index_exists, ing, runs, last, chat, rag_chain, limiter, tmp_files>>

\* ------------------------------------------------------------------ bounds
\* Ingestion runs started in one behaviour.
MaxRuns == 2
\* Chunks of the large document of the catalogue (more than two batches).
BigChunks == 130
\* Length of the longest conversation history a client sends.
MaxHist == 4

\* ------------------------------------------------------------ text helpers
\* Python's None, where a string (a sequence of characters) is expected
None == <<"<None>">>

Range(s) == {s[i] : i \in 1..Len(s)}

RECURSIVE Concat(_)
Concat(ss) == IF ss = <<>> THEN <<>> ELSE Head(ss) \o Concat(Tail(ss))

Min(a, b) == IF a < b THEN a ELSE b
Max(a, b) == IF a > b THEN a ELSE b

\* str.isspace(), on the white space the inputs use
IsSpace(c) == c \in {" ", "\t"}

RECURSIVE LStrip(_)
LStrip(s) == IF s # <<>> /\ IsSpace(Head(s)) THEN LStrip(Tail(s)) ELSE s

RECURSIVE RStrip(_)
RStrip(s) ==
    IF s # <<>> /\ IsSpace(s[Len(s)]) THEN RStrip(SubSeq(s, 1, Len(s) - 1)) ELSE s

\* str.strip()
Strip(s) == RStrip(LStrip(s))

DEFAULT_NS == <<"d", "e", "f", "a", "u", "l", "t">>

\* Python's `x or "default"`: None and the empty string are falsy.
OrDefault(ns) == IF ns = None \/ ns = <<>> THEN DEFAULT_NS ELSE ns

\* --------------------------------------------------------- external services
\* What a text is about (one of NTopics topics on a circle): the embedding
\* service places a query near the chunks of its topic.  Chunk texts are content
\* codes, query texts are messages.
NTopics == 6
ChunkTopic(c) == c % NTopics
QueryTopic(m) == Len(m) % NTopics

\* The embedding service: a deterministic vector per text.
Embedding(t) == <<"vec", t>>

\* embeddings.create(input=texts).data: one vector per text, in order.
EmbedData(texts) == [k \in 1..Len(texts) |-> Embedding(texts[k])]

\* Cosine similarity of a query vector and a stored vector, in hundredths:
\* 100, 65, 30 or -5 as the topics are 0, 1, 2 or 3 apart.
Score(q, v) ==
    LET a == QueryTopic(q[2])
        b == ChunkTopic(v[2])
        d == Min((a - b) % NTopics, (b - a) % NTopics)
    IN 100 - 35 * d

\* index.upsert(vectors, namespace): insert or overwrite by (namespace, id).
IndexUpsert(idx, vectors, ns) ==
    LET n == Len(vectors)
        ids == {vectors[k].id : k \in 1..n}
        \* of two vectors of one request with the same id, the later one stays
        kept == {k \in 1..n : \A j \in (k + 1)..n : vectors[j].id # vectors[k].id}
    IN {r \in idx : ~(r.ns = ns /\ r.id \in ids)}
         \cup {[ns |-> ns, id |-> vectors[k].id, values |-> vectors[k].values,
                metadata |-> vectors[k].metadata] : k \in kept}

\* ------------------------------------------------------------- ingestion
ALLOWED_EXTENSIONS == {".pdf", ".txt", ".md"}

batch_size == 64

\* The documents a run can be given.  `chunks` is what chunk_text yields on the
\* extracted text; `blank` says the extracted text is empty after stripping;
\* `corrupt` says the PDF reader raises on it.
BigDoc ==
    [dir |-> "c", stem |-> "big", ext |-> ".md", blank |-> FALSE, corrupt |-> FALSE,
     oversize |-> FALSE, chunks |-> [k \in 1..BigChunks |-> (k % 3) + 1]]

Catalogue ==
    << [dir |-> "a", stem |-> "x", ext |-> ".txt", blank |-> FALSE, corrupt |-> FALSE,
        oversize |-> FALSE, chunks |-> <<1, 2>>],
       [dir |-> "a", stem |-> "e", ext |-> ".txt", blank |-> TRUE, corrupt |-> FALSE,
        oversize |-> FALSE, chunks |-> <<>>],
       [dir |-> "b", stem |-> "x", ext |-> ".txt", blank |-> FALSE, corrupt |-> FALSE,
        oversize |-> FALSE, chunks |-> <<1, 3>>],
       [dir |-> "b", stem |-> "s", ext |-> ".pdf", blank |-> FALSE, corrupt |-> TRUE,
        oversize |-> FALSE, chunks |-> <<>>],
       BigDoc,
       [dir |-> "c", stem |-> "d", ext |-> ".docx", blank |-> FALSE, corrupt |-> FALSE,
        oversize |-> FALSE, chunks |-> <<4>>],
       [dir |-> "d", stem |-> "h", ext |-> ".pdf", blank |-> TRUE, corrupt |-> FALSE,
        oversize |-> TRUE, chunks |-> <<>>] >>

Files == Range(Catalogue)

Dirs == {f.dir : f \in Files}

\* pathlib: Path.name and str(Path)
PathName(f) == f.stem \o f.ext
PathStr(f) == f.dir \o "/" \o PathName(f)

\* file_to_text followed by chunk_text: the chunk list, or "raise".
file_to_text_ok(f) ==
    IF f.ext = ".pdf" THEN ~f.corrupt
    ELSE f.ext \in {".txt", ".md"}

HexDigits == 0..15

\* hashlib.sha256(text).hexdigest()[:16]: sixteen hex digits, a function of the
\* text alone.
hash_text(text) == [k \in 1..16 |-> (text * (2 * k + 1) + 7 * k) % 16]

\* build_items: cid = f"{file_path.name}-{idx}-{hash_text(chunk)}"
MutBuildItemsSaltedHash(name, source, chunks) ==
    [k \in 1..Len(chunks) |->
        [id |-> [name |-> name, idx |-> k - 1, hash |-> hash_text(chunks[k] + runs)],
         text |-> chunks[k],
         metadata |-> [source |-> source, chunk_id |-> k - 1, text |-> chunks[k]]]]
build_items(name, source, chunks) ==
    [k \in 1..Len(chunks) |->
        [id |-> [name |-> name, idx |-> k - 1, hash |-> hash_text(chunks[k])],
         text |-> chunks[k],
         metadata |-> [source |-> source, chunk_id |-> k - 1, text |-> chunks[k]]]]


\* items[i : i + batch_size] (i is 0-based)
Batch(items, i) == SubSeq(items, i + 1, Min(i + batch_size, Len(items)))

\* the vectors of one batch: zip(batch, emb.data)
MutBatchVectorsShifted(batch, data) ==
    [k \in 1..Min(Len(batch), Len(data)) |->
        [id |-> batch[k].id, values |-> data[Len(data) + 1 - k],
         metadata |-> batch[k].metadata]]
BatchVectors(batch, data) ==
    [k \in 1..Min(Len(batch), Len(data)) |->
        [id |-> batch[k].id, values |-> data[k], metadata |-> batch[k].metadata]]

\* main: a directory is walked (rglob) for the files of the allowed extensions
DirPaths(d) ==
    SelectSeq(Catalogue, LAMBDA f : f.dir = d /\ f.ext \in ALLOWED_EXTENSIONS)

\* main: anything else is taken as one file
FilePaths(f) == <<f>>

\* main: all_items.extend(build_items(p, chunk_text(file_to_text(p)))) per path
AllItems(paths) ==
    Concat([k \in 1..Len(paths) |->
              build_items(PathName(paths[k]), PathStr(paths[k]), paths[k].chunks)])

\* the namespace values a caller can give (None: not given)
NsInputs == {None, <<>>, <<" ", "A">>}

\* argparse default / Form default
ArgDefault(ns) == IF ns = None THEN DEFAULT_NS ELSE ns

\* upload_document: `if not namespace or len(namespace.strip()) == 0: namespace =
\* "default"`, then `namespace = namespace.strip()`
UploadNamespace(ns) ==
    LET given == ArgDefault(ns)
    IN Strip(IF given = <<>> \/ Len(Strip(given)) = 0 THEN DEFAULT_NS ELSE given)

\* tempfile.NamedTemporaryFile(delete=False, suffix=file_ext).name
NoTmp == [n |-> 0, suffix |-> ""]

TmpName(n, suffix) == [n |-> n, suffix |-> suffix]

IdleIng ==
    [pc |-> "idle", entry |-> "none", ns |-> None, given_ns |-> None, items |-> <<>>,
     i |-> 0, emb |-> <<>>, log |-> <<>>, before |-> {}, outcome |-> "none",
     extracted |-> -1, opened |-> FALSE, detail |-> "", paths |-> <<>>,
     tmp_file_path |-> NoTmp]

\* the run before the current one: whether it succeeded, and with what
NoLast == [valid |-> FALSE, ns |-> None, items |-> <<>>]

\* scripts/ingest.py main(), up to the call of upsert_items
MutCliStartNoEmptyCheck(paths, ns) ==
    /\ ing.pc = "idle"
    /\ runs < MaxRuns
    /\ runs' = runs + 1
    /\ LET base == [IdleIng EXCEPT !.entry = "cli", !.given_ns = ns,
                                   !.ns = ArgDefault(ns), !.before = index,
                                   !.paths = [k \in 1..Len(paths) |-> PathStr(paths[k])]]
       IN IF \E k \in 1..Len(paths) : ~file_to_text_ok(paths[k])
          THEN ing' = [base EXCEPT !.pc = "end", !.outcome = "raised"]
          ELSE ing' = [base EXCEPT !.pc = "open", !.items = AllItems(paths),
                                   !.extracted = Len(AllItems(paths))]
    /\ UNCHANGED <<index, index_exists, last, chat, rag_chain, limiter, tmp_files>>
MutCliStartSkipFailed(paths, ns) ==
    /\ ing.pc = "idle"
    /\ runs < MaxRuns
    /\ runs' = runs + 1
    /\ LET base == [IdleIng EXCEPT !.entry = "cli", !.given_ns = ns,
                                   !.ns = ArgDefault(ns), !.before = index,
                                   !.paths = [k \in 1..Len(paths) |-> PathStr(paths[k])]]
           readable == SelectSeq(paths, file_to_text_ok)
       IN IF AllItems(readable) = <<>>
          THEN ing' = [base EXCEPT !.pc = "end", !.outcome = "nothing", !.extracted = 0,
                                   !.detail = "No content found."]
          ELSE ing' = [base EXCEPT !.pc = "open", !.items = AllItems(readable),
                                   !.extracted = Len(AllItems(readable))]
    /\ UNCHANGED <<index, index_exists, last, chat, rag_chain, limiter, tmp_files>>
CliStart(paths, ns) ==
    /\ ing.pc = "idle"
    /\ runs < MaxRuns
    /\ runs' = runs + 1
    /\ LET base == [IdleIng EXCEPT !.entry = "cli", !.given_ns = ns,
                                   !.ns = ArgDefault(ns), !.before = index,
                                   !.paths = [k \in 1..Len(paths) |-> PathStr(paths[k])]]
       IN IF \E k \in 1..Len(paths) : ~file_to_text_ok(paths[k])
          THEN ing' = [base EXCEPT !.pc = "end", !.outcome = "raised"]
          ELSE IF AllItems(paths) = <<>>
          THEN ing' = [base EXCEPT !.pc = "end", !.outcome = "nothing", !.extracted = 0,
                                   !.detail = "No content found."]
          ELSE ing' = [base EXCEPT !.pc = "open", !.items = AllItems(paths),
                                   !.extracted = Len(AllItems(paths))]
    /\ UNCHANGED <<index, index_exists, last, chat, rag_chain, limiter, tmp_files>>

\* backend/api/index.py upload_document(), up to the call of upsert_items: the
\* validation, the temporary file, the extraction and the chunking
UploadStart(f, ns) ==
    /\ ing.pc = "idle"
    /\ runs < MaxRuns
    /\ runs' = runs + 1
    /\ LET base == [IdleIng EXCEPT !.entry = "upload", !.given_ns = ns,
                                   !.ns = UploadNamespace(ns), !.before = index]
           tmp == TmpName(runs + 1, f.ext)
           saved == [base EXCEPT !.tmp_file_path = tmp]
       IN IF f.ext \notin ALLOWED_EXTENSIONS
          THEN /\ ing' = [base EXCEPT !.pc = "end", !.outcome = "http400",
                                      !.detail = "File type not supported"]
               /\ UNCHANGED tmp_files
          ELSE IF f.oversize
          THEN /\ ing' = [base EXCEPT !.pc = "end", !.outcome = "http413",
                                      !.detail = "File too large"]
               /\ UNCHANGED tmp_files
          ELSE /\ tmp_files' = tmp_files \cup {tmp}
               /\ IF ~file_to_text_ok(f)
                  THEN ing' = [saved EXCEPT !.pc = "end", !.outcome = "http500",
                                           !.detail = "Failed to process file"]
                  ELSE IF f.blank
                  THEN ing' = [saved EXCEPT !.pc = "end", !.outcome = "http400",
                                           !.extracted = 0,
                                           !.detail = "No text content found in file"]
                  ELSE IF f.chunks = <<>>
                  THEN ing' = [saved EXCEPT !.pc = "end", !.outcome = "http400",
                                           !.extracted = 0,
                                           !.detail = "No content chunks created"]
                  ELSE ing' = [saved EXCEPT !.pc = "open", !.extracted = Len(f.chunks),
                                 !.items = build_items(PathName(f), PathName(f), f.chunks)]
    /\ UNCHANGED <<index, index_exists, last, chat, rag_chain, limiter>>

\* how a failure inside upsert_items reaches the caller
FailOutcome(entry) == IF entry = "upload" THEN "http500" ELSE "raised"

\* upsert_items: list_indexes / create_index
OpenIndex(ok) ==
    /\ ing.pc = "open"
    /\ IF ok
       THEN /\ index_exists' = TRUE
            /\ ing' = [ing EXCEPT !.pc = IF Len(ing.items) > 0 THEN "embed" ELSE "end",
                                  !.outcome = IF Len(ing.items) > 0 THEN "none" ELSE "ok",
                                  !.opened = TRUE]
       ELSE /\ ing' = [ing EXCEPT !.pc = "end", !.outcome = FailOutcome(ing.entry),
                                  !.opened = TRUE]
            /\ UNCHANGED index_exists
    /\ UNCHANGED <<index, runs, last, chat, rag_chain, limiter, tmp_files>>

\* upsert_items: client.embeddings.create(input=texts) of the batch at i
EmbedBatch(ok) ==
    /\ ing.pc = "embed"
    /\ LET batch == Batch(ing.items, ing.i)
           texts == [k \in 1..Len(batch) |-> batch[k].text]
       IN IF ok
          THEN ing' = [ing EXCEPT !.pc = "upsert", !.emb = EmbedData(texts),
                                  !.log = Append(@, [op |-> "embed", texts |-> texts])]
          ELSE ing' = [ing EXCEPT !.pc = "end", !.outcome = FailOutcome(ing.entry),
                                  !.log = Append(@, [op |-> "embed_failed", texts |-> texts])]
    /\ UNCHANGED <<index, index_exists, runs, last, chat, rag_chain, limiter, tmp_files>>

\* upsert_items: index.upsert(vectors=vectors, namespace=namespace) of the batch
\* at i, then the loop's next i
MutUpsertBatchSwallow(ok) ==
    /\ ing.pc = "upsert"
    /\ LET vectors == BatchVectors(Batch(ing.items, ing.i), ing.emb)
           next_i == ing.i + batch_size
           more == [ing EXCEPT
                     !.i = next_i, !.emb = <<>>,
                     !.pc = IF next_i < Len(ing.items) THEN "embed" ELSE "end",
                     !.outcome = IF next_i < Len(ing.items) THEN "none" ELSE "ok"]
       IN IF ok
          THEN /\ index' = IndexUpsert(index, vectors, ing.ns)
               /\ ing' = [more EXCEPT !.log = Append(@, [op |-> "upsert", ns |-> ing.ns,
                                                         vectors |-> vectors])]
          ELSE /\ ing' = [more EXCEPT !.log = Append(@, [op |-> "upsert_failed",
                                                         ns |-> ing.ns,
                                                         vectors |-> vectors])]
               /\ UNCHANGED index
    /\ UNCHANGED <<index_exists, runs, last, chat, rag_chain, limiter, tmp_files>>
UpsertBatch(ok) ==
    /\ ing.pc = "upsert"
    /\ LET vectors == BatchVectors(Batch(ing.items, ing.i), ing.emb)
           next_i == ing.i + batch_size
       IN IF ok
          THEN /\ index' = IndexUpsert(index, vectors, ing.ns)
               /\ ing' = [ing EXCEPT
                     !.i = next_i, !.emb = <<>>,
                     !.pc = IF next_i < Len(ing.items) THEN "embed" ELSE "end",
                     !.outcome = IF next_i < Len(ing.items) THEN "none" ELSE "ok",
                     !.log = Append(@, [op |-> "upsert", ns |-> ing.ns,
                                        vectors |-> vectors])]
          ELSE /\ ing' = [ing EXCEPT
                     !.pc = "end", !.outcome = FailOutcome(ing.entry),
                     !.log = Append(@, [op |-> "upsert_failed", ns |-> ing.ns,
                                        vectors |-> vectors])]
               /\ UNCHANGED index
    /\ UNCHANGED <<index_exists, runs, last, chat, rag_chain, limiter, tmp_files>>

\* the run is over: the script's process exits; upload_document unlinks the
\* temporary file after upsert_items has returned (line 303) or in its
\* `except Exception` (lines 317-325), not in its `except HTTPException: raise`,
\* and the response is sent
IngestEnd ==
    /\ ing.pc = "end"
    /\ ing' = IdleIng
    /\ last' = IF ing.outcome = "ok"
               THEN [valid |-> TRUE, ns |-> ing.ns, items |-> ing.items]
               ELSE NoLast
    /\ tmp_files' = IF ing.entry = "upload" /\ ing.outcome \in {"ok", "http500"}
                    THEN tmp_files \ {ing.tmp_file_path}
                    ELSE tmp_files
    /\ UNCHANGED <<index, index_exists, runs, chat, rag_chain, limiter>>

BatchNext ==
    \/ \E ok \in BOOLEAN : OpenIndex(ok)
    \/ \E ok \in BOOLEAN : EmbedBatch(ok)
    \/ \E ok \in BOOLEAN : UpsertBatch(ok)
    \/ IngestEnd

CliNext ==
    \/ \E f \in Files, ns \in NsInputs : CliStart(FilePaths(f), ns)
    \/ \E d \in Dirs, ns \in NsInputs : CliStart(DirPaths(d), ns)
    \/ BatchNext

UploadNext ==
    \/ \E f \in Files, ns \in NsInputs : UploadStart(f, ns)
    \/ BatchNext

\* the script and the upload route against one index, on the documents of a
\* single batch
SmallFiles == {f \in Files : Len(f.chunks) <= batch_size}

SmallDirs == {d \in Dirs : \A k \in 1..Len(DirPaths(d)) : DirPaths(d)[k] \in SmallFiles}

IngestNext ==
    \/ \E f \in SmallFiles, ns \in NsInputs : CliStart(FilePaths(f), ns)
    \/ \E d \in SmallDirs, ns \in NsInputs : CliStart(DirPaths(d), ns)
    \/ \E f \in SmallFiles, ns \in NsInputs : UploadStart(f, ns)
    \/ BatchNext

\* ------------------------------------------------------------------ query
\* A string built from a template: the raw text, or one of the two prompts of
\* RAGChain.invoke with what was interpolated into it.
Raw(chars) == [kind |-> "raw", context |-> <<>>, message |-> chars]

SYSTEM_PROMPT == [kind |-> "system_prompt", context |-> <<>>, message |-> <<>>]

\* dict.get(key, default)
Get(d, key, default) == IF key \in DOMAIN d THEN d[key] ELSE default

\* str.lower(), on the letters the messages use
Lower(s) ==
    [k \in 1..Len(s) |->
        CASE s[k] = "H" -> "h" [] s[k] = "O" -> "o" [] s[k] = "K" -> "k"
          [] s[k] = "W" -> "w" [] OTHER -> s[k]]

\* len(str.split()): the number of whitespace-delimited tokens
NumTokens(s) ==
    Cardinality({k \in 1..Len(s) : ~IsSpace(s[k]) /\ (k = 1 \/ IsSpace(s[k - 1]))})

\* `word in text` on strings: word occurs as a substring
Contains(text, word) ==
    \E k \in 0..(Len(text) - Len(word)) :
        \A j \in 1..Len(word) : text[k + j] = word[j]

greetings ==
    { <<"h","i">>, <<"h","e","l","l","o">>, <<"h","e","y">>,
      <<"g","o","o","d"," ","m","o","r","n","i","n","g">>,
      <<"g","o","o","d"," ","a","f","t","e","r","n","o","o","n">>,
      <<"g","o","o","d"," ","e","v","e","n","i","n","g">>,
      <<"h","o","w"," ","a","r","e"," ","y","o","u">>,
      <<"h","o","w","'","s"," ","i","t"," ","g","o","i","n","g">>,
      <<"w","h","a","t","'","s"," ","u","p">>,
      <<"h","o","w"," ","d","o"," ","y","o","u"," ","d","o">>,
      <<"t","h","a","n","k","s">>, <<"t","h","a","n","k"," ","y","o","u">>,
      <<"b","y","e">>, <<"g","o","o","d","b","y","e">>,
      <<"s","e","e"," ","y","o","u"," ","l","a","t","e","r">>,
      <<"n","i","c","e"," ","t","o"," ","m","e","e","t"," ","y","o","u">>,
      <<"p","l","e","a","s","u","r","e"," ","t","o"," ","m","e","e","t"," ","y","o","u">> }

filler_words ==
    { <<"h","i">>, <<"h","e","l","l","o">>, <<"h","e","y">>, <<"o","k">>,
      <<"y","e","s">>, <<"n","o">> }

\* RAGChain._is_general_conversation
MutIsGeneralNoStrip(message) ==
    LET message_lower == Lower(message)
    IN \/ message_lower \in greetings
       \/ /\ NumTokens(message) <= 2
          /\ \E word \in filler_words : Contains(message_lower, word)
is_general_conversation(message) ==
    LET message_lower == Strip(Lower(message))
    IN \/ message_lower \in greetings
       \/ /\ NumTokens(message) <= 2
          /\ \E word \in filler_words : Contains(message_lower, word)

\* RAGChain._build_context: per match the lines "Source: {source}", the snippet
\* and "", to be joined by newlines
build_context(docs) ==
    Concat([k \in 1..Len(docs) |->
        LET meta == docs[k].metadata
        IN << [tag |-> "header", source |-> Get(meta, "source", "unknown"), text |-> 0],
              [tag |-> "snippet", source |-> "", text |-> Get(meta, "text", 0)],
              [tag |-> "blank", source |-> "", text |-> 0] >>])

\* context_text.strip() is not empty: some line holds a character that is not
\* white space (a header always does, a snippet when it has a text)
ContextNotBlank(lines) ==
    \E k \in 1..Len(lines) :
        \/ lines[k].tag = "header"
        \/ lines[k].tag = "snippet" /\ lines[k].text # 0

RELEVANCE_GATE == 30

\* [doc for doc in retrieved if doc.get("score", 0) > 0.3]
MutRelevantDocsGe(retrieved) == SelectSeq(retrieved, LAMBDA d : d.score >= RELEVANCE_GATE)
relevant_docs(retrieved) == SelectSeq(retrieved, LAMBDA d : d.score > RELEVANCE_GATE)

\* the user prompt of a document question
user_content_for(message, retrieved) ==
    LET context_text == build_context(retrieved)
    IN IF relevant_docs(retrieved) # <<>> /\ ContextNotBlank(context_text)
       THEN [kind |-> "context", context |-> context_text, message |-> message]
       ELSE [kind |-> "fallback", context |-> <<>>, message |-> message]

HISTORY_WINDOW == 3

\* history[-3:]
MutLastTurnsFirst(history) == SubSeq(history, 1, Min(HISTORY_WINDOW, Len(history)))
LastTurns(history) ==
    SubSeq(history, Max(1, Len(history) - HISTORY_WINDOW + 1), Len(history))

\* the messages sent to the chat model
build_messages(user_content, history) ==
    << [role |-> "system", content |-> SYSTEM_PROMPT],
       [role |-> "user", content |-> user_content] >>
    \o [k \in 1..Len(LastTurns(history)) |->
          [role |-> Get(LastTurns(history)[k], "role", "user"),
           content |-> Get(LastTurns(history)[k], "content", Raw(<<>>))]]

\* the index's answer to query(vector, top_k, namespace): the top_k stored vectors
\* of the namespace by descending score
RECURSIVE TopMatches(_, _, _)
TopMatches(S, q, k) ==
    IF k <= 0 \/ S = {} THEN <<>>
    ELSE LET best == CHOOSE r \in S : \A o \in S : Score(q, r.values) >= Score(q, o.values)
         IN <<[id |-> best.id, score |-> Score(q, best.values), metadata |-> best.metadata]>>
              \o TopMatches(S \ {best}, q, k - 1)

IndexQuery(idx, q, top_k, ns) == TopMatches({r \in idx : r.ns = ns}, q, top_k)

\* PineconeVectorStore.query: the normalised matches
NormalizeMatches(matches) ==
    [k \in 1..Len(matches) |->
        [id |-> matches[k].id, score |-> matches[k].score,
         metadata |-> Get(matches[k], "metadata", <<>>)]]

\* RAGChain.invoke: the citations
MutCitationsRelevantOnly(retrieved) ==
    LET rel == relevant_docs(retrieved)
    IN [k \in 1..Len(rel) |->
          [id |-> rel[k].id, score |-> rel[k].score,
           source |-> Get(rel[k].metadata, "source", "<None>")]]
Citations(retrieved) ==
    [k \in 1..Len(retrieved) |->
        [id |-> retrieved[k].id, score |-> retrieved[k].score,
         source |-> Get(retrieved[k].metadata, "source", "<None>")]]

MAX_MESSAGE == 2000

\* a message of n letters followed by pad
LongMessage(n, pad) == [k \in 1..n |-> "a"] \o pad

\* the requests a client sends
Messages ==
    { <<"h","i">>,
      <<"H","e","l","l","o">>,
      <<"o","k"," ","t","h","e","n">>,
      <<"w","h","a","t"," ","i","s"," ","n","o">>,
      <<"w","h","e","r","e"," ","x">>,
      <<" ">>,
      <<>> }

\* messages at the length limit: 2000 letters, 2000 letters and a trailing
\* blank, 2001 letters; sent without a history
LongMessages ==
    { LongMessage(MAX_MESSAGE, <<>>),
      LongMessage(MAX_MESSAGE, <<" ">>),
      LongMessage(MAX_MESSAGE + 1, <<>>) }

DigitStr == <<"1", "2", "3", "4", "5", "6", "7", "8", "9">>

Roles == <<"assistant", "user", "system">>

\* the k-th turn of the conversation so far; of every five turns the client
\* sends the fourth without a role and the fifth without a content
Turn(k) ==
    IF k % 5 = 4 THEN [content |-> Raw(<<"q", DigitStr[k]>>)]
    ELSE IF k % 5 = 0 THEN [role |-> "assistant"]
    ELSE [role |-> Roles[(k % 3) + 1], content |-> Raw(<<"q", DigitStr[k]>>)]

\* history: not given (None), or the first n turns
Histories ==
    {[given |-> FALSE, turns |-> <<>>]}
      \cup {[given |-> TRUE, turns |-> [k \in 1..n |-> Turn(k)]] : n \in 0..MaxHist}

NoHistory == [given |-> FALSE, turns |-> <<>>]

TopKInputs == {0, 2, 25}

ChatNsInputs == {None, <<>>, <<"A">>, <<" ", "A">>}

NoResponse == [status |-> 0, has_result |-> FALSE, citations |-> <<>>, error |-> ""]

IdleChat ==
    [pc |-> "idle", entry |-> "none", raw_message |-> None, message |-> <<>>,
     history |-> <<>>, top_k |-> 0,
     ns |-> None, general |-> FALSE, query_vec |-> <<>>, query_ns |-> None,
     matches |-> <<>>, retrieved |-> <<>>, user_content |-> Raw(<<>>),
     messages |-> <<>>, n_embed |-> 0, n_query |-> 0, n_complete |-> 0,
     invoked |-> FALSE, failed_call |-> "none", response |-> NoResponse]

ErrorResponse(status, text) ==
    [status |-> status, has_result |-> FALSE, citations |-> <<>>, error |-> text]

\* what the entry point answers when RAGChain.invoke (or the chain's
\* construction) raises
ChatFailure(entry) ==
    IF entry = "handler" THEN ErrorResponse(500, "Internal server error")
    ELSE ErrorResponse(500, "Internal server error during chat processing")

\* RAGChain.invoke up to its first external call: history = history or [], the
\* classifier, and for general conversation the prompt
MutInvokeBeginAlwaysRetrieve(c) ==
    [c EXCEPT !.pc = "embed", !.invoked = TRUE,
              !.general = is_general_conversation(c.message)]
InvokeBegin(c) ==
    IF is_general_conversation(c.message)
    THEN [c EXCEPT !.pc = "complete", !.invoked = TRUE, !.general = TRUE,
                   !.retrieved = <<>>,
                   !.user_content = Raw(c.message),
                   !.messages = build_messages(Raw(c.message), c.history)]
    ELSE [c EXCEPT !.pc = "embed", !.invoked = TRUE, !.general = FALSE]

\* the validated request, at the call of get_rag_chain() / _get_chain()
Accepted(entry, message, history, top_k, ns) ==
    LET c == [IdleChat EXCEPT !.entry = entry, !.message = message,
                              !.history = IF history.given THEN history.turns ELSE <<>>,
                              !.top_k = top_k, !.ns = ns]
    IN IF rag_chain THEN InvokeBegin(c) ELSE [c EXCEPT !.pc = "init"]

Rejected(entry, status, text) ==
    [IdleChat EXCEPT !.pc = "end", !.entry = entry, !.response = ErrorResponse(status, text)]

\* api/chat.py handler(), a POST with a JSON body
HandlerStart(message, history, top_k, ns) ==
    /\ chat.pc = "idle"
    /\ LET msg == Strip(message)
           c == IF msg = <<>> THEN Rejected("handler", 400, "Message is required")
                ELSE IF Len(msg) > MAX_MESSAGE
                THEN Rejected("handler", 400, "Message too long")
                ELSE Accepted("handler", msg, history, Min(Max(top_k, 1), 20),
                              ArgDefault(ns))
       IN chat' = [c EXCEPT !.raw_message = message]
    /\ UNCHANGED <<index, index_exists, ing, runs, last, rag_chain, limiter, tmp_files>>

\* api/chat.py handler(): the requests answered before the message is looked at
\* (a preflight, another method, a body that is not JSON), and a JSON body whose
\* message is null (None.strip() raises, caught by the outer except)
RequestKinds == {"options", "get", "bad_json", "null_message"}

HandlerOther(kind) ==
    /\ chat.pc = "idle"
    /\ chat' =
         CASE kind = "options" -> Rejected("handler", 200, "")
           [] kind = "get" -> Rejected("handler", 405, "Method not allowed")
           [] kind = "bad_json" -> Rejected("handler", 400, "Invalid JSON")
           [] kind = "null_message" -> Rejected("handler", 500, "Internal server error")
    /\ UNCHANGED <<index, index_exists, ing, runs, last, rag_chain, limiter, tmp_files>>

\* backend/api/index.py chat(), behind the ChatRequest validation
MutFastApiStartNoValidator(message, history, top_k, ns) ==
    /\ chat.pc = "idle"
    /\ LET c == IF \/ Len(message) < 1 \/ Len(message) > MAX_MESSAGE
                   \/ top_k < 1 \/ top_k > 20
                THEN Rejected("fastapi", 422, "validation error")
                ELSE Accepted("fastapi", message, history, top_k, ArgDefault(ns))
       IN chat' = [c EXCEPT !.raw_message = message]
    /\ UNCHANGED <<index, index_exists, ing, runs, last, rag_chain, limiter, tmp_files>>
FastApiStart(message, history, top_k, ns) ==
    /\ chat.pc = "idle"
    /\ LET c == IF \/ Len(message) < 1 \/ Len(message) > MAX_MESSAGE
                   \/ top_k < 1 \/ top_k > 20
                   \/ Strip(message) = <<>>
                THEN Rejected("fastapi", 422, "validation error")
                ELSE Accepted("fastapi", Strip(message), history, top_k, ArgDefault(ns))
       IN chat' = [c EXCEPT !.raw_message = message]
    /\ UNCHANGED <<index, index_exists, ing, runs, last, rag_chain, limiter, tmp_files>>

\* RAGChain() on the first request: PineconeVectorStore lists the indexes and
\* creates the index when it is missing
ChainInit(ok) ==
    /\ chat.pc = "init"
    /\ IF ok
       THEN /\ rag_chain' = TRUE
            /\ index_exists' = TRUE
            /\ chat' = InvokeBegin(chat)
       ELSE /\ chat' = [chat EXCEPT !.pc = "end", !.failed_call = "init",
                                    !.response = ChatFailure(chat.entry)]
            /\ UNCHANGED <<rag_chain, index_exists>>
    /\ UNCHANGED <<index, ing, runs, last, limiter, tmp_files>>

\* PineconeVectorStore.query: embed_texts([query])[0]
ChatEmbed(ok) ==
    /\ chat.pc = "embed"
    /\ chat' =
         IF ok
         THEN [chat EXCEPT !.pc = "query", !.n_embed = @ + 1,
                           !.query_vec = EmbedData(<<chat.message>>)[1]]
         ELSE [chat EXCEPT !.pc = "end", !.n_embed = @ + 1, !.failed_call = "embed",
                           !.response = ChatFailure(chat.entry)]
    /\ UNCHANGED <<index, index_exists, ing, runs, last, rag_chain, limiter, tmp_files>>

\* PineconeVectorStore.query: index.query(...), the normalisation, and
\* RAGChain.invoke up to the chat completion
ChatQuery(ok) ==
    /\ chat.pc = "query"
    /\ chat' =
         IF ok
         THEN LET wire == OrDefault(chat.ns)
                  matches == IndexQuery(index, chat.query_vec, chat.top_k, wire)
                  retrieved == NormalizeMatches(matches)
                  user_content == user_content_for(chat.message, retrieved)
              IN [chat EXCEPT !.pc = "complete", !.n_query = @ + 1,
                              !.query_ns = wire, !.matches = matches,
                              !.retrieved = retrieved, !.user_content = user_content,
                              !.messages = build_messages(user_content, chat.history)]
         ELSE [chat EXCEPT !.pc = "end", !.n_query = @ + 1, !.failed_call = "query",
                           !.response = ChatFailure(chat.entry)]
    /\ UNCHANGED <<index, index_exists, ing, runs, last, rag_chain, limiter, tmp_files>>

\* RAGChain.invoke: client.chat.completions.create(...), the citations, and the
\* entry point's response
MutChatCompleteRetry(ok) ==
    /\ chat.pc = "complete"
    /\ chat' =
         IF ok
         THEN [chat EXCEPT !.pc = "end", !.n_complete = @ + 1,
                           !.response = [status |-> 200, has_result |-> TRUE,
                                         citations |-> Citations(chat.retrieved),
                                         error |-> ""]]
         ELSE [chat EXCEPT !.n_complete = @ + 1]
    /\ UNCHANGED <<index, index_exists, ing, runs, last, rag_chain, limiter, tmp_files>>
ChatComplete(ok) ==
    /\ chat.pc = "complete"
    /\ chat' =
         IF ok
         THEN [chat EXCEPT !.pc = "end", !.n_complete = @ + 1,
                           !.response = [status |-> 200, has_result |-> TRUE,
                                         citations |-> Citations(chat.retrieved),
                                         error |-> ""]]
         ELSE [chat EXCEPT !.pc = "end", !.n_complete = @ + 1, !.failed_call = "complete",
                           !.response = ChatFailure(chat.entry)]
    /\ UNCHANGED <<index, index_exists, ing, runs, last, rag_chain, limiter, tmp_files>>

\* the response is sent
ChatEnd ==
    /\ chat.pc = "end"
    /\ chat' = IdleChat
    /\ UNCHANGED <<index, index_exists, ing, runs, last, rag_chain, limiter, tmp_files>>

ChatNext ==
    \/ \E m \in Messages, h \in Histories, k \in TopKInputs, ns \in ChatNsInputs :
          HandlerStart(m, h, k, ns)
    \/ \E kind \in RequestKinds : HandlerOther(kind)
    \/ \E m \in Messages, h \in Histories, k \in TopKInputs, ns \in ChatNsInputs :
          FastApiStart(m, h, k, ns)
    \/ \E m \in LongMessages, k \in TopKInputs : HandlerStart(m, NoHistory, k, None)
    \/ \E m \in LongMessages, k \in TopKInputs : FastApiStart(m, NoHistory, k, None)
    \/ \E ok \in BOOLEAN : ChainInit(ok)
    \/ \E ok \in BOOLEAN : ChatEmbed(ok)
    \/ \E ok \in BOOLEAN : ChatQuery(ok)
    \/ \E ok \in BOOLEAN : ChatComplete(ok)
    \/ ChatEnd

\* ------------------------------------------------------------- rate limit
\* RATE_LIMIT_REQUESTS = int(os.getenv("RATE_LIMIT_REQUESTS", "100")), here set
\* by the environment
RATE_LIMIT_REQUESTS == 2

\* datetime.minute is the minute of the hour
MINUTES_PER_HOUR == 60

\* the clock is followed over the minutes 0..MaxMinute of the hours 0..MaxHour
MaxMinute == 1
MaxHour == 1

\* requests made in one behaviour
MaxRequests == 5

Ips == {"10.0.0.1", "10.0.0.2"}

NoVerdict == [seq |-> 0, ip |-> "", nth |-> 0, allowed |-> FALSE, status |-> 0]

InitLimiter ==
    /\ request_counts = [k \in {} |-> 0]
    /\ now = 0
    /\ made = [ip \in Ips |-> 0]
    /\ verdict = NoVerdict

\* rate_limit_middleware: check_rate_limit(request.client.host), then the 429
\* answer or call_next(request)
Request(client_ip) ==
    /\ verdict.seq < MaxRequests
    /\ LET minute_key == <<client_ip, now % MINUTES_PER_HOUR>>
           counts == IF minute_key \in DOMAIN request_counts THEN request_counts
                     ELSE (minute_key :> 0) @@ request_counts
           allowed == ~(counts[minute_key] >= RATE_LIMIT_REQUESTS)
       IN /\ request_counts' = IF allowed THEN [counts EXCEPT ![minute_key] = @ + 1]
                                ELSE counts
          /\ verdict' = [seq |-> verdict.seq + 1, ip |-> client_ip,
                         nth |-> made[client_ip] + 1, allowed |-> allowed,
                         status |-> IF allowed THEN 200 ELSE 429]
    /\ made' = [made EXCEPT ![client_ip] = @ + 1]
    /\ UNCHANGED <<index, index_exists, ing, runs, last, chat, rag_chain, now, tmp_files>>

\* the wall clock moves on, by a minute or by an hour
Tick(d) ==
    /\ (now + d) % MINUTES_PER_HOUR <= MaxMinute
    /\ (now + d) \div MINUTES_PER_HOUR <= MaxHour
    /\ now' = now + d
    /\ made' = [ip \in Ips |-> 0]
    /\ UNCHANGED <<index, index_exists, ing, runs, last, chat, rag_chain,
                   request_counts, verdict, tmp_files>>

LimiterNext ==
    \/ \E ip \in Ips : Request(ip)
    \/ \E d \in {1, MINUTES_PER_HOUR} : Tick(d)

\* ------------------------------------------------------- classifier inputs
\* Tokens of the messages the classifier is applied to.
MaxTokens == 3

Vocabulary ==
    << <<"h","i">>, <<"H","e","y">>, <<"O","K">>, <<"k","n","o","w">>,
       <<"t","h","a","n","k","s">>, <<"g","o","o","d">>,
       <<"m","o","r","n","i","n","g">>, <<"x">> >>

Separators == { <<" ">>, <<" ", " ">>, <<"\t">> }

Paddings == { <<>>, <<" ">> }

\* sep.join(tokens)
RECURSIVE Join(_, _)
Join(tokens, sep) ==
    IF tokens = <<>> THEN <<>>
    ELSE IF Len(tokens) = 1 THEN tokens[1]
    ELSE tokens[1] \o sep \o Join(Tail(tokens), sep)

\* the fixed phrases as a client types them
TypedPhrases == greetings \cup { <<"H","o","w"," ","a","r","e"," ","y","o","u">> }

\* messages of up to MaxTokens tokens, separated by one blank, two blanks or a
\* tab, and the fixed phrases, with or without leading and trailing blanks
ClassifierInputs ==
    { lead \o g \o trail : <<g, lead, trail>> \in TypedPhrases \X Paddings \X Paddings }
      \cup
    { lead \o Join([k \in 1..n |-> Vocabulary[ix[k]]], sep) \o trail :
        <<n, ix, sep, lead, trail>> \in
            { t \in (0..MaxTokens) \X [1..MaxTokens -> 1..Len(Vocabulary)]
                       \X Separators \X Paddings \X Paddings :
                \A k \in (t[1] + 1)..MaxTokens : t[2][k] = 1 } }

\* chain._is_general_conversation(message) on its own
Classify ==
    /\ chat.pc = "idle"
    /\ \E m \in ClassifierInputs :
          chat' = [IdleChat EXCEPT !.pc = "classified", !.raw_message = m,
                                  !.general = is_general_conversation(m)]
    /\ UNCHANGED <<index, index_exists, ing, runs, last, rag_chain, limiter, tmp_files>>

ClassifyEnd ==
    /\ chat.pc = "classified"
    /\ chat' = IdleChat
    /\ UNCHANGED <<index, index_exists, ing, runs, last, rag_chain, limiter, tmp_files>>

ClassifyNext ==
    \/ Classify
    \/ ClassifyEnd

\* ------------------------------------------------------------ specifications
\* a complete run of upsert_items on an index
RECURSIVE RunBatches(_, _, _, _)
RunBatches(idx, items, ns, i) ==
    IF i >= Len(items) THEN idx
    ELSE LET batch == Batch(items, i)
             data == EmbedData([k \in 1..Len(batch) |-> batch[k].text])
         IN RunBatches(IndexUpsert(idx, BatchVectors(batch, data), ns), items, ns,
                       i + batch_size)

CliRun(idx, f, ns) == RunBatches(idx, AllItems(FilePaths(f)), ArgDefault(ns), 0)

UploadRun(idx, f, ns) ==
    RunBatches(idx, build_items(PathName(f), PathName(f), f.chunks), UploadNamespace(ns), 0)

\* the index contents the chat requests are checked on: empty, and after one,
\* two and four ingestion runs
Seed1 == CliRun({}, Catalogue[1], None)
Seed2 == UploadRun(Seed1, Catalogue[3], <<" ", "A">>)
Seed3 == CliRun(CliRun(Seed2, Catalogue[3], None), Catalogue[1], <<>>)

Seeds == {{}, Seed1, Seed2, Seed3}

Init ==
    /\ index = {}
    /\ index_exists = FALSE
    /\ ing = IdleIng
    /\ runs = 0
    /\ last = NoLast
    /\ chat = IdleChat
    /\ rag_chain = FALSE
    /\ InitLimiter
    /\ tmp_files = {}

\* the chat service in front of an index that ingestion has filled
InitChat ==
    /\ index \in Seeds
    /\ index_exists = (index # {})
    /\ ing = IdleIng
    /\ runs = 0
    /\ last = NoLast
    /\ chat = IdleChat
    /\ rag_chain = FALSE
    /\ InitLimiter
    /\ tmp_files = {}

SpecCli == Init /\ [][CliNext]_vars

SpecUpload == Init /\ [][UploadNext]_vars

SpecIngest == Init /\ [][IngestNext]_vars

SpecChat == InitChat /\ [][ChatNext]_vars

SpecClassify == Init /\ [][ClassifyNext]_vars

SpecLimiter == Init /\ [][LimiterNext]_vars


\* ------------------------------------------------------------------ claims
\* the prompt of the current request has been built by the retrieval path
PromptFromRetrieval == chat.invoked /\ ~chat.general /\ chat.query_ns # None

\* C1: on a message that is not general conversation, the retrieved context is
\* in the user prompt if and only if some match the index returned scores
\* strictly above 0.3; otherwise (every score <= 0.3, or no match) the prompt is
\* the fallback note and holds no context.
C1_RelevanceGate ==
    PromptFromRetrieval =>
        LET above == \E k \in 1..Len(chat.matches) : chat.matches[k].score > RELEVANCE_GATE
            prompt == chat.messages[2].content
        IN /\ chat.messages[2].role = "user"
           /\ prompt.message = chat.message
           /\ above => /\ prompt.kind = "context"
                       /\ prompt.context = build_context(chat.retrieved)
                       /\ prompt.context # <<>>
           /\ ~above => prompt.kind = "fallback" /\ prompt.context = <<>>

\* a match scoring exactly 0.3 is the best one, and the prompt is the fallback
C1_Witness ==
    /\ PromptFromRetrieval
    /\ chat.messages[2].content.kind = "fallback"
    /\ \E k \in 1..Len(chat.matches) : chat.matches[k].score = RELEVANCE_GATE

\* C2: for a message the classifier marks as general conversation, invoke makes
\* no embedding call and no index query at any point, sends the raw message as
\* the user prompt, and returns no citations.
C2_GeneralSkipsRetrieval ==
    (chat.invoked /\ is_general_conversation(chat.message)) =>
        /\ chat.n_embed = 0
        /\ chat.n_query = 0
        /\ chat.pc \in {"complete", "end"}
        /\ chat.messages[2] = [role |-> "user", content |-> Raw(chat.message)]
        /\ chat.response.has_result =>
              chat.response.citations = <<>> /\ chat.n_complete = 1

\* a greeting answered from a namespace that holds items
C2_Witness ==
    /\ chat.invoked
    /\ is_general_conversation(chat.message)
    /\ chat.response.has_result
    /\ \E r \in index : r.ns = OrDefault(chat.ns)

\* the (id, score, source) of the matches as the index returned them
ProjectedMatches ==
    [k \in 1..Len(chat.matches) |->
        [id |-> chat.matches[k].id, score |-> chat.matches[k].score,
         source |-> chat.matches[k].metadata.source]]

\* C3: the citations of a result are the projection (id, score, source) of every
\* match the index returned, in the index's order and of the same length,
\* whether the context was used in the prompt or discarded.
C3_CitationsProjectMatches ==
    chat.response.has_result => chat.response.citations = ProjectedMatches

\* a result whose context was discarded and that still cites two matches
C3_Witness ==
    /\ chat.response.has_result
    /\ chat.messages[2].content.kind = "fallback"
    /\ Len(chat.response.citations) >= 2
    /\ chat.response.citations[1].score > chat.response.citations[2].score

\* the sources of the context lines of the prompt sent to the chat model
ContextSources(prompt) ==
    [k \in 1..(Len(prompt.context) \div 3) |-> prompt.context[3 * k - 2].source]

\* C4: the citations mirror the matches whose text was in the context sent to
\* the chat model: a match is cited if and only if its text was part of that
\* context, in the index's order.
C4_CitationsMirrorUsedContext ==
    chat.response.has_result =>
        [k \in 1..Len(chat.response.citations) |-> chat.response.citations[k].source]
            = ContextSources(chat.messages[2].content)

\* C6: the messages sent to the chat model are the system prompt, one user
\* message, and the last min(3, len(history)) turns of the history in their
\* order with their role and content (a turn sent without a role counts as a
\* user turn, one without a content as an empty one); older turns never appear.
C6_MessageList ==
    (chat.invoked /\ chat.messages # <<>>) =>
        LET n == Len(chat.history)
            w == Min(HISTORY_WINDOW, n)
        IN /\ Len(chat.messages) = 2 + w
           /\ chat.messages[1] = [role |-> "system", content |-> SYSTEM_PROMPT]
           /\ chat.messages[2] = [role |-> "user", content |-> chat.user_content]
           /\ \A j \in 1..w :
                 LET turn == chat.history[n - w + j]
                     sent == chat.messages[2 + j]
                 IN /\ DOMAIN sent = {"role", "content"}
                    /\ sent.role = (IF "role" \in DOMAIN turn THEN turn.role ELSE "user")
                    /\ sent.content = (IF "content" \in DOMAIN turn THEN turn.content
                                       ELSE Raw(<<>>))

\* a history of four turns, of which the last three are sent
C6_Witness ==
    /\ chat.invoked
    /\ Len(chat.history) = 4
    /\ Len(chat.messages) = 5
    /\ chat.messages[3] = chat.history[2]

\* C10: when the embedding call, the index query or the chat completion fails,
\* the entry point answers status 500 with its fixed error text, no answer and no
\* citations, and no external call of the request is made a second time.
C10_GenericFailure ==
    /\ chat.n_embed <= 1 /\ chat.n_query <= 1 /\ chat.n_complete <= 1
    /\ chat.failed_call \in {"embed", "query", "complete"} =>
          /\ chat.pc = "end"
          /\ chat.response.status = 500
          /\ ~chat.response.has_result
          /\ chat.response.citations = <<>>
          /\ chat.response.error =
                (IF chat.entry = "handler" THEN "Internal server error"
                 ELSE "Internal server error during chat processing")
          /\ chat.n_embed + chat.n_query + chat.n_complete
                = (CASE chat.failed_call = "embed" -> 1
                     [] chat.failed_call = "query" -> 2
                     [] chat.failed_call = "complete" -> IF chat.general THEN 1 ELSE 3)

\* the chat completion fails after matches were retrieved
C10_Witness ==
    /\ chat.failed_call = "complete"
    /\ chat.retrieved # <<>>
    /\ chat.response.status = 500

\* the message rule of a chat request: not empty after trimming, and at most
\* 2000 characters after trimming
MessageRule(m) == Strip(m) # <<>> /\ Len(Strip(m)) <= MAX_MESSAGE

\* C11: both chat entry points call RAGChain.invoke only with a trimmed,
\* non-empty message of at most 2000 characters and a top_k in 1..20; a request
\* whose message breaks the rule is answered with an error (400 or 422) and
\* without the chain being built or invoked and without any embedding, index
\* or chat-model call.
C11_ValidatedRequests ==
    /\ chat.invoked =>
          /\ chat.message # <<>>
          /\ chat.message = Strip(chat.message)
          /\ chat.message = Strip(chat.raw_message)
          /\ Len(chat.message) <= MAX_MESSAGE
          /\ chat.top_k \in 1..20
    /\ (chat.pc # "idle" /\ chat.raw_message # None /\ ~MessageRule(chat.raw_message)) =>
          /\ chat.pc = "end"
          /\ ~chat.invoked
          /\ chat.response.status \in {400, 422}
          /\ ~chat.response.has_result
          /\ chat.n_embed = 0 /\ chat.n_query = 0 /\ chat.n_complete = 0
          /\ chat.failed_call = "none"

\* the handler has invoked the chain with a padded message trimmed to exactly
\* 2000 characters and a top_k clamped from 25 to 20
C11_Witness ==
    /\ chat.invoked
    /\ chat.entry = "handler"
    /\ Len(chat.raw_message) = MAX_MESSAGE + 1
    /\ Len(chat.message) = MAX_MESSAGE
    /\ chat.top_k = 20

\* ---------------------------------------------------------- classifier claim
\* str.split(): the whitespace-delimited tokens of s, in order
RECURSIVE SplitTokens(_)
SplitTokens(s) ==
    IF s = <<>> THEN <<>>
    ELSE IF IsSpace(Head(s)) THEN SplitTokens(Tail(s))
    ELSE LET stop == IF \E k \in 1..Len(s) : IsSpace(s[k])
                     THEN CHOOSE k \in 1..Len(s) :
                            IsSpace(s[k]) /\ \A j \in 1..(k - 1) : ~IsSpace(s[j])
                     ELSE Len(s) + 1
         IN <<SubSeq(s, 1, stop - 1)>> \o SplitTokens(SubSeq(s, stop, Len(s)))

\* word occurs in text
Occurs(word, text) ==
    \E i \in 1..(Len(text) - Len(word) + 1) :
        SubSeq(text, i, i + Len(word) - 1) = word

\* C12: _is_general_conversation(message) is true exactly when, on the trimmed
\* message without regard to case, (a) the whole message is one of the fixed
\* greeting/closing phrases, or (b) the message has at most 2
\* whitespace-delimited tokens and one of hi, hello, hey, ok, yes, no occurs in
\* it; so a message of 3 or more tokens that is not a fixed phrase is a
\* document question.
C12_Classifier ==
    chat.pc = "classified" =>
        LET trimmed == Strip(Lower(chat.raw_message))
            tokens == SplitTokens(trimmed)
            phrase == trimmed \in greetings
            short == /\ Len(tokens) <= 2
                     /\ \E word \in filler_words : Occurs(word, trimmed)
        IN /\ chat.general <=> (phrase \/ short)
           /\ (Len(tokens) >= 3 /\ ~phrase) => ~chat.general

\* a padded two-token message that is no fixed phrase and holds "no" inside
\* "know" has been classified as general conversation
C12_Witness ==
    /\ chat.pc = "classified"
    /\ chat.general
    /\ chat.raw_message = <<" ", "k","n","o","w", " ", " ", "x", " ">>

\* ---------------------------------------------------------- ingestion claims
FailedOps == {"embed_failed", "upsert_failed"}

ItemIds(items) == [k \in 1..Len(items) |-> items[k].id]

IdsIn(idx, ns) == {r.id : r \in {x \in idx : x.ns = ns}}

\* the stored id is {fileName}-{chunkIndex}-{16 hex digits of the chunk text}
WellFormedId(r) ==
    /\ \E f \in Files : r.id.name = PathName(f)
    /\ r.id.idx = r.metadata.chunk_id
    /\ r.id.idx \in 0..(BigChunks - 1)
    /\ Len(r.id.hash) = 16
    /\ \A k \in 1..16 : r.id.hash[k] \in HexDigits
    /\ r.id.hash = hash_text(r.metadata.text)

\* C5: ingesting the same unchanged file (same name, same chunk sequence) into
\* the same namespace again leaves the index with the item ids of the first
\* ingest and with as many items; every id stored by a run has the form
\* {fileName}-{chunkIndex}-{16-hex hash of the chunk text}.
C5_IdempotentReingest ==
    ing.pc = "end" =>
        /\ \A r \in index : WellFormedId(r)
        /\ (/\ ing.outcome = "ok"
            /\ last.valid /\ last.ns = ing.ns
            /\ ItemIds(last.items) = ItemIds(ing.items)) =>
                /\ IdsIn(index, ing.ns) = IdsIn(ing.before, ing.ns)
                /\ Cardinality(index) = Cardinality(ing.before)

\* the large document was ingested twice in a row into one namespace
C5_Witness ==
    /\ ing.pc = "end" /\ ing.outcome = "ok"
    /\ last.valid /\ last.ns = ing.ns
    /\ ItemIds(last.items) = ItemIds(ing.items)
    /\ Len(ing.items) > batch_size
    /\ Cardinality(IdsIn(index, ing.ns)) = Len(ing.items)

\* the stored vectors of namespace ns under the id of item it
StoredAs(idx, ns, it) == {r \in idx : r.ns = ns /\ r.id = it.id}

\* C8: when the embedding call or the upsert of batch k fails, the run ends
\* there as a failure (no retry), every item of batches 1..k-1 is in the index,
\* and no item of batch k or of a later batch has been written by the run.
C8_NoRetryNoRollback ==
    \A m \in 1..Len(ing.log) :
        ing.log[m].op \in FailedOps =>
            LET written ==
                  batch_size * Cardinality({j \in 1..m : ing.log[j].op = "upsert"})
            IN /\ m = Len(ing.log)
               /\ ing.pc = "end"
               /\ ing.outcome \in {"raised", "http500"}
               /\ written < Len(ing.items)
               /\ \A j \in 1..Len(ing.items) :
                     IF j <= written
                     THEN StoredAs(index, ing.ns, ing.items[j])
                            = {[ns |-> ing.ns, id |-> ing.items[j].id,
                                values |-> Embedding(ing.items[j].text),
                                metadata |-> ing.items[j].metadata]}
                     ELSE StoredAs(index, ing.ns, ing.items[j])
                            = StoredAs(ing.before, ing.ns, ing.items[j])

\* the upsert of the second batch failed: the first batch is in the index
C8_Witness ==
    /\ ing.pc = "end"
    /\ ing.outcome = "raised"
    /\ Len(ing.log) = 4
    /\ ing.log[4].op = "upsert_failed"
    /\ index # ing.before

\* C9: n items go out as ceil(n / 64) batches of at most 64, one after another
\* (the embedding call of a batch follows the upsert of the batch before it);
\* every item is embedded and upserted once, with the embedding of its own
\* text, in the order of the items.  Stated on the calls a run has made by
\* the time it ends (ing.log only grows).
C9_SequentialBatches ==
    LET n == Len(ing.items) IN
    ing.pc = "end" =>
    /\ \A m \in 1..Len(ing.log) :
          LET lo == batch_size * ((m - 1) \div 2)
              size == Min(batch_size, n - lo)
              e == ing.log[m]
          IN /\ size >= 1
             /\ IF m % 2 = 1
                THEN /\ e.op \in {"embed", "embed_failed"}
                     /\ e.texts = [k \in 1..size |-> ing.items[lo + k].text]
                ELSE /\ e.op \in {"upsert", "upsert_failed"}
                     /\ ing.log[m - 1].op = "embed"
                     /\ e.ns = ing.ns
                     /\ e.vectors =
                          [k \in 1..size |->
                              [id |-> ing.items[lo + k].id,
                               values |-> Embedding(ing.items[lo + k].text),
                               metadata |-> ing.items[lo + k].metadata]]
    /\ ing.outcome = "ok" =>
          /\ Len(ing.log) = 2 * ((n + batch_size - 1) \div batch_size)
          /\ \A m \in 1..Len(ing.log) : ing.log[m].op \notin FailedOps

\* a run of three batches, the last one short, has completed
C9_Witness ==
    /\ ing.outcome = "ok"
    /\ Len(ing.log) = 6
    /\ Len(ing.log[6].vectors) < batch_size

\* C7: every upsert and every query sent to the index names one namespace,
\* "default" when none or an empty one was given, and a chat query for one
\* namespace receives and cites only items stored under that namespace.
C7_NamespaceIsolation ==
    /\ \A m \in 1..Len(ing.log) :
          ing.log[m].op = "upsert" =>
              /\ ing.log[m].ns # None
              /\ ing.given_ns \in {None, <<>>} => ing.log[m].ns = DEFAULT_NS
    /\ chat.query_ns # None =>
          /\ chat.ns \in {None, <<>>} => chat.query_ns = DEFAULT_NS
          /\ chat.ns \notin {None, <<>>} => chat.query_ns = chat.ns
          /\ \A k \in 1..Len(chat.retrieved) :
                \E r \in index : /\ r.ns = chat.query_ns
                                 /\ r.id = chat.retrieved[k].id
                                 /\ r.metadata = chat.retrieved[k].metadata

\* C13: when extraction and chunking yield no content, the run ends at once
\* with a "nothing to ingest" outcome and not a failure -- the script prints
\* "No content found." and returns, the upload route answers that no content
\* was found -- with no index listing or creation, no embedding call and no
\* upsert, and the index as it was before the run.
C13_NothingToIngest ==
    (ing.pc # "idle" /\ ing.extracted = 0) =>
        /\ ing.pc = "end"
        /\ ing.outcome \notin {"raised", "http500", "ok"}
        /\ ing.entry = "cli" =>
              ing.outcome = "nothing" /\ ing.detail = "No content found."
        /\ ing.entry = "upload" =>
              /\ ing.outcome = "http400"
              /\ ing.detail \in {"No text content found in file",
                                  "No content chunks created"}
        /\ ~ing.opened
        /\ ing.log = <<>>
        /\ ing.items = <<>>
        /\ index = ing.before

\* a blank document was uploaded to an index that already holds items
C13_Witness ==
    /\ ing.entry = "upload"
    /\ ing.extracted = 0
    /\ ing.outcome = "http400"
    /\ index # {}

\* the file at a path
FileAt(path) == CHOOSE f \in Files : PathStr(f) = path

\* C15: a run of the script issues no index call (listing, creation, embedding
\* for upsert, upsert) before every selected file has been extracted and
\* chunked; when the extraction of one of the files fails the run aborts as a
\* failure and the index is exactly as before the run, with no item of the
\* files extracted before the failing one written.
C15_ExtractAllBeforeUpsert ==
    ing.entry = "cli" =>
        LET selected == [k \in 1..Len(ing.paths) |-> FileAt(ing.paths[k])]
            fails == \E k \in 1..Len(selected) : ~file_to_text_ok(selected[k])
        IN /\ fails =>
                 /\ ing.pc = "end"
                 /\ ing.outcome = "raised"
                 /\ ~ing.opened
                 /\ ing.log = <<>>
                 /\ index = ing.before
           /\ (ing.opened \/ ing.log # <<>>) =>
                 /\ ~fails
                 /\ Len(ing.items) =
                       Len(Concat([k \in 1..Len(selected) |-> selected[k].chunks]))
                 /\ \A k \in 1..Len(selected) :
                       selected[k].chunks # <<>> =>
                          \E j \in 1..Len(ing.items) :
                             ing.items[j].metadata.source = ing.paths[k]

\* a directory whose first file is readable and whose second is not was given
\* to the script, against an index that holds items: the run has raised
C15_Witness ==
    /\ ing.entry = "cli"
    /\ ing.outcome = "raised"
    /\ Len(ing.paths) = 2
    /\ file_to_text_ok(FileAt(ing.paths[1]))
    /\ FileAt(ing.paths[1]).chunks # <<>>
    /\ ~file_to_text_ok(FileAt(ing.paths[2]))
    /\ index # {}
    /\ \A r \in index : r.metadata.source # ing.paths[1]

\* C16: an upsert that overwrites an item stored under the same id in the same
\* namespace leaves its text and its metadata (source, chunk_id, text) as they
\* were: no run replaces or re-attributes an item of another file.
C16_OverwriteKeepsItem ==
    \A o \in ing.before :
        \/ o \in index
        \/ \A r \in index :
              (r.ns = o.ns /\ r.id = o.id) => r.metadata = o.metadata

\* C17: when an upload request has finished -- ingested, turned down for empty
\* text or no chunks (400), or failed in extraction, embedding or upsert (500)
\* -- no temporary file that upload_document created is left on disk.
C17_TempFilesDeleted ==
    ing.pc = "idle" => tmp_files = {}

\* C14: in every wall-clock minute and for every client, check_rate_limit
\* admits the first RATE_LIMIT_REQUESTS requests of the client in that minute
\* and rejects the later ones, whatever was requested in earlier minutes.
C14_PerMinuteLimit ==
    verdict.seq > 0 =>
        /\ verdict.allowed <=> verdict.nth <= RATE_LIMIT_REQUESTS
        /\ verdict.status = (IF verdict.nth <= RATE_LIMIT_REQUESTS THEN 200 ELSE 429)

====
